---- MODULE Spec2Model ----
(***************************************************************************)
(* State-machine model of termmine's board engine (class termmine::Game,   *)
(* src/src/Game.cxx).  Every cell is the packed byte of Game.hxx:          *)
(* bit 7 = mine, bit 6 = opened, bit 5 = flagged, bit 4 = marked,          *)
(* bits 3..0 = number of adjacent mines.  The input loop that drives the   *)
(* engine (create_custom_board, game_menu, new_game of src/src/play.cxx)   *)
(* is the second specification, SpecPlay.                                  *)
(***************************************************************************)
EXTENDS Integers, Sequences, FiniteSets, TLC

\* ---------------------------------------------------------------- bounds
MaxRows == 2
MaxCols == 2
MaxCells == 4
MaxLostFlags == 1
MaxLineCols == 3
IntBits == 4

\* the members of the Game object and the observations of its run, then the
\* cursor of new_game and the place the driver of the object is at
VARIABLES rows, cols, mines, board, game_over, won, cells_flagged,
          open_cells, timer_starts, relocations, raised, oob, cursor, pc

vars == <<rows, cols, mines, board, game_over, won, cells_flagged,
          open_cells, timer_starts, relocations, raised, oob, cursor, pc>>

\* ------------------------------------------------- unsigned char bit ops
\* 1u << k for the 8 bits of an unsigned char
Pow2(k) == <<1, 2, 4, 8, 16, 32, 64, 128>>[k + 1]

TestBit(b, k) == (b \div Pow2(k)) % 2 = 1

\* b | (1u << k)
OrBit(b, k) == IF TestBit(b, k) THEN b ELSE b + Pow2(k)

\* b & ~(1u << k)
ClearBit(b, k) == IF TestBit(b, k) THEN b - Pow2(k) ELSE b

\* b ^ (1u << k)
XorBit(b, k) == IF TestBit(b, k) THEN b - Pow2(k) ELSE b + Pow2(k)

\* b | n, bit by bit over the 8 bits of an unsigned char
RECURSIVE OrBits(_, _, _)
OrBits(b, n, k) ==
    IF k = 8 THEN b
    ELSE OrBits(IF TestBit(n, k) THEN OrBit(b, k) ELSE b, n, k + 1)

\* b & ~0b1111u
ClearLow4(b) == b - (b % 16)

\* ------------------------------------------------------------ the grid
\* A Game object is a record g with the members of class Game (rows, cols,
\* mines, board, game_over, won, cells_flagged, open_cells) and five
\* observations of its run: timer_starts counts the calls of timer_.start(),
\* relocations counts the first-click mine moves, raised tells that
\* BadGameState left open_cell, oob tells that first_open_cell went past the
\* end of a row, calls counts the invocations of open_cell made by the
\* command under way.
InGrid(g, i, j) == i >= 0 /\ i < g.rows /\ j >= 0 /\ j < g.cols

has_mine(g, row, col) == TestBit(g.board[<<row, col>>], 7)

is_open(g, row, col) == TestBit(g.board[<<row, col>>], 6)

has_flag(g, row, col) == TestBit(g.board[<<row, col>>], 5)

has_mark(g, row, col) == TestBit(g.board[<<row, col>>], 4)

num_adj_mines(g, row, col) == g.board[<<row, col>>] % 16

\* in-grid toggle; a toggle at a column past the row's end (col < rows_,
\* within the few bytes after a row's own storage) writes outside the grid
\* and leaves every cell of the grid as it was
toggle_mine(g, row, col) ==
    IF InGrid(g, row, col)
    THEN [g EXCEPT !.board[<<row, col>>] = XorBit(@, 7)]
    ELSE [g EXCEPT !.oob = TRUE]

\* the 3x3 window around (row, col) in the order of the two nested loops
Window(row, col) ==
    << <<row - 1, col - 1>>, <<row - 1, col>>, <<row - 1, col + 1>>,
       <<row, col - 1>>, <<row, col>>, <<row, col + 1>>,
       <<row + 1, col - 1>>, <<row + 1, col>>, <<row + 1, col + 1>> >>

adjacent_cells(g, row, col) ==
    SelectSeq(Window(row, col),
              LAMBDA p : InGrid(g, p[1], p[2]) /\ (p[1] # row \/ p[2] # col))

RECURSIVE CountMines(_, _)
CountMines(g, s) ==
    IF s = <<>> THEN 0
    ELSE (IF has_mine(g, Head(s)[1], Head(s)[2]) THEN 1 ELSE 0)
         + CountMines(g, Tail(s))

\* set_adj_mines_count without the `&= ~(0b1111u)` that clears the old count
set_adj_mines_count_keep_low(g, row, col) ==
    LET num_mines == CountMines(g, adjacent_cells(g, row, col))
    IN  [g EXCEPT !.board[<<row, col>>] = OrBits(@, num_mines, 0)]

set_adj_mines_count(g, row, col) ==
    LET num_mines == CountMines(g, adjacent_cells(g, row, col))
    IN  [g EXCEPT !.board[<<row, col>>] = OrBits(ClearLow4(@), num_mines, 0)]

\* for i < rows_, for j < cols_: set_adj_mines_count(i, j)
RECURSIVE RecountFrom(_, _)
RecountFrom(g, k) ==
    IF k >= g.rows * g.cols THEN g
    ELSE RecountFrom(set_adj_mines_count(g, k \div g.cols, k % g.cols), k + 1)

RecountAll(g) == RecountFrom(g, 0)

\* ------------------------------------------------------ first_open_cell
\* the mine bit the scan sees at (i, j): the cell's bit inside the grid; a
\* read past the end of a row returns an arbitrary bit.  The scan stops at the
\* first clear bit, so what the arbitrary bits do is told by hv, the ordinal
\* of the first out-of-range read that comes back clear (0: none does); n is
\* the number of out-of-range reads made before this one
ScanMine(g, hv, i, j, n) ==
    IF InGrid(g, i, j) THEN has_mine(g, i, j) ELSE n + 1 # hv

\* scan position k stands for i = k \div rows_, j = k % rows_: the inner
\* loop of first_open_cell runs j up to rows_
RECURSIVE ScanFrom(_, _, _, _)
ScanFrom(g, hv, k, n) ==
    IF k >= g.rows * g.rows
    THEN [found |-> FALSE, row |-> 0, col |-> 0, oob |-> n > 0]
    ELSE LET i == k \div g.rows
             j == k % g.rows
             m == IF InGrid(g, i, j) THEN n ELSE n + 1
         IN  IF ~ScanMine(g, hv, i, j, n)
             THEN [found |-> TRUE, row |-> i, col |-> j, oob |-> m > 0]
             ELSE ScanFrom(g, hv, k + 1, m)

first_open_cell(g, hv) == ScanFrom(g, hv, 0, 0)

\* ------------------------------------------------------------ commands
\* first-click branch of open_cell: move the mine, recount every cell
Relocate(g, row, col, hv) ==
    LET f == first_open_cell(g, hv)
        seen == [g EXCEPT !.oob = @ \/ f.oob]
    IN  IF ~f.found
        THEN [seen EXCEPT !.raised = TRUE]
        ELSE RecountAll(toggle_mine(
                 toggle_mine([seen EXCEPT !.relocations = @ + 1],
                             f.row, f.col), row, col))

RECURSIVE open_cell(_, _, _, _)
RECURSIVE OpenEach(_, _, _)

\* the neighbour loop leaving after its first round
OpenEach_first_only(g, s, hv) ==
    IF s = <<>> \/ g.raised THEN g
    ELSE open_cell(g, Head(s)[1], Head(s)[2], hv)

\* for (adj : s) open_cell(adj); an exception leaves the loop
OpenEach(g, s, hv) ==
    IF s = <<>> \/ g.raised THEN g
    ELSE OpenEach(open_cell(g, Head(s)[1], Head(s)[2], hv), Tail(s), hv)

\* open_cell counting a call on an open, flagged or marked cell as an open
open_cell_counts_noop(g, row, col, hv) ==
    IF is_open(g, row, col) \/ has_flag(g, row, col) \/ has_mark(g, row, col)
    THEN [g EXCEPT !.calls = @ + 1, !.open_cells = @ + 1]
    ELSE
      LET g1 == [g EXCEPT
                   !.calls = @ + 1,
                   !.timer_starts = IF g.open_cells = 0 THEN @ + 1 ELSE @,
                   !.board[<<row, col>>] = OrBit(@, 6),
                   !.open_cells = @ + 1]
          lost == has_mine(g1, row, col) /\ g1.open_cells # 1
          g2 == IF ~has_mine(g1, row, col) THEN g1
                ELSE IF g1.open_cells = 1 THEN Relocate(g1, row, col, hv)
                ELSE [g1 EXCEPT !.game_over = TRUE]
      IN  IF lost \/ g2.raised THEN g2
          ELSE IF num_adj_mines(g2, row, col) = 0
               THEN OpenEach(g2, adjacent_cells(g2, row, col), hv)
               ELSE g2

\* open_cell starting the clock before its early return
open_cell_starts_timer_early(g, row, col, hv) ==
    IF is_open(g, row, col) \/ has_flag(g, row, col) \/ has_mark(g, row, col)
    THEN [g EXCEPT !.calls = @ + 1,
                   !.timer_starts = IF g.open_cells = 0 THEN @ + 1 ELSE @]
    ELSE
      LET g1 == [g EXCEPT
                   !.calls = @ + 1,
                   !.timer_starts = IF g.open_cells = 0 THEN @ + 1 ELSE @,
                   !.board[<<row, col>>] = OrBit(@, 6),
                   !.open_cells = @ + 1]
          lost == has_mine(g1, row, col) /\ g1.open_cells # 1
          g2 == IF ~has_mine(g1, row, col) THEN g1
                ELSE IF g1.open_cells = 1 THEN Relocate(g1, row, col, hv)
                ELSE [g1 EXCEPT !.game_over = TRUE]
      IN  IF lost \/ g2.raised THEN g2
          ELSE IF num_adj_mines(g2, row, col) = 0
               THEN OpenEach(g2, adjacent_cells(g2, row, col), hv)
               ELSE g2

\* open_cell whose early return overlooks the mark
open_cell_ignores_mark(g, row, col, hv) ==
    IF is_open(g, row, col) \/ has_flag(g, row, col)
    THEN [g EXCEPT !.calls = @ + 1]
    ELSE
      LET g1 == [g EXCEPT
                   !.calls = @ + 1,
                   !.timer_starts = IF g.open_cells = 0 THEN @ + 1 ELSE @,
                   !.board[<<row, col>>] = OrBit(@, 6),
                   !.open_cells = @ + 1]
          lost == has_mine(g1, row, col) /\ g1.open_cells # 1
          g2 == IF ~has_mine(g1, row, col) THEN g1
                ELSE IF g1.open_cells = 1 THEN Relocate(g1, row, col, hv)
                ELSE [g1 EXCEPT !.game_over = TRUE]
      IN  IF lost \/ g2.raised THEN g2
          ELSE IF num_adj_mines(g2, row, col) = 0
               THEN OpenEach(g2, adjacent_cells(g2, row, col), hv)
               ELSE g2

open_cell(g, row, col, hv) ==
    IF is_open(g, row, col) \/ has_flag(g, row, col) \/ has_mark(g, row, col)
    THEN [g EXCEPT !.calls = @ + 1]
    ELSE
      LET g1 == [g EXCEPT
                   !.calls = @ + 1,
                   !.timer_starts = IF g.open_cells = 0 THEN @ + 1 ELSE @,
                   !.board[<<row, col>>] = OrBit(@, 6),
                   !.open_cells = @ + 1]
          lost == has_mine(g1, row, col) /\ g1.open_cells # 1
          g2 == IF ~has_mine(g1, row, col) THEN g1
                ELSE IF g1.open_cells = 1 THEN Relocate(g1, row, col, hv)
                ELSE [g1 EXCEPT !.game_over = TRUE]
      IN  IF lost \/ g2.raised THEN g2
          ELSE IF num_adj_mines(g2, row, col) = 0
               THEN OpenEach(g2, adjacent_cells(g2, row, col), hv)
               ELSE g2

RECURSIVE CountFlags(_, _)
CountFlags(g, s) ==
    IF s = <<>> THEN 0
    ELSE (IF has_flag(g, Head(s)[1], Head(s)[2]) THEN 1 ELSE 0)
         + CountFlags(g, Tail(s))

\* chord_cell without the comparison of flags and adjacency count
chord_cell_any_flags(g, row, col, hv) ==
    IF ~is_open(g, row, col) THEN g
    ELSE OpenEach(g, adjacent_cells(g, row, col), hv)

chord_cell(g, row, col, hv) ==
    IF ~is_open(g, row, col) THEN g
    ELSE IF CountFlags(g, adjacent_cells(g, row, col))
            # num_adj_mines(g, row, col)
         THEN g
         ELSE OpenEach(g, adjacent_cells(g, row, col), hv)

\* flag_cell without the is_open early return
flag_cell_unguarded(g, row, col) ==
    LET byte == XorBit(ClearBit(g.board[<<row, col>>], 4), 5)
    IN  [g EXCEPT !.board[<<row, col>>] = byte,
                  !.cells_flagged = IF TestBit(byte, 5) THEN @ + 1
                                    ELSE @ - 1]

flag_cell(g, row, col) ==
    IF is_open(g, row, col) THEN g
    ELSE LET byte == XorBit(ClearBit(g.board[<<row, col>>], 4), 5)
         IN  [g EXCEPT !.board[<<row, col>>] = byte,
                       !.cells_flagged = IF TestBit(byte, 5) THEN @ + 1
                                         ELSE @ - 1]

\* mark_cell without the `&= ~(1u << 5)` that unflags the cell first
mark_cell_keep_flag(g, row, col) ==
    [g EXCEPT !.board[<<row, col>>] = XorBit(@, 4)]

\* mark_cell toggling bit 6, the open bit, in place of the mark bit
mark_cell_toggles_open(g, row, col) ==
    [g EXCEPT !.board[<<row, col>>] = XorBit(ClearBit(@, 5), 6)]

mark_cell(g, row, col) ==
    [g EXCEPT !.board[<<row, col>>] = XorBit(ClearBit(@, 5), 4)]

\* for i < rows_, for j < cols_: flag the unflagged mines
RECURSIVE AutoFlagFrom(_, _)
AutoFlagFrom(g, k) ==
    IF k >= g.rows * g.cols THEN g
    ELSE LET i == k \div g.cols
             j == k % g.cols
         IN  AutoFlagFrom(IF has_mine(g, i, j) /\ ~has_flag(g, i, j)
                          THEN flag_cell(g, i, j) ELSE g, k + 1)

\* check_win ending the game without its flagging pass
check_win_no_autoflag(g, row, col) ==
    IF g.open_cells + g.mines = g.rows * g.cols /\ ~has_mine(g, row, col)
    THEN [g EXCEPT !.won = TRUE, !.game_over = TRUE]
    ELSE g

check_win(g, row, col) ==
    IF g.open_cells + g.mines = g.rows * g.cols /\ ~has_mine(g, row, col)
    THEN AutoFlagFrom([g EXCEPT !.won = TRUE, !.game_over = TRUE], 0)
    ELSE g

\* ------------------------------------------------------- state machine
Cells == (0 .. rows - 1) \X (0 .. cols - 1)

\* the Game object the variables hold, at the start of a command
Game ==
    [rows |-> rows, cols |-> cols, mines |-> mines, board |-> board,
     game_over |-> game_over, won |-> won, cells_flagged |-> cells_flagged,
     open_cells |-> open_cells, timer_starts |-> timer_starts,
     relocations |-> relocations, raised |-> raised, oob |-> oob,
     calls |-> 0]

\* number of cells whose flag bit is set
NumFlags(b) == Cardinality({c \in DOMAIN b : TestBit(b[c], 5)})

\* toggle_mine on each cell of the shuffle's prefix
RECURSIVE PlaceMines(_, _)
PlaceMines(g, layout) ==
    IF layout = {} THEN g
    ELSE LET c == CHOOSE x \in layout : TRUE
         IN  PlaceMines(toggle_mine(g, c[1], c[2]), layout \ {c})

\* Game::Game(r, c, m) with the shuffle's first m cells being `layout`
NewGame(r, c, m, layout) ==
    RecountAll(PlaceMines(
        [rows |-> r, cols |-> c, mines |-> m,
         board |-> [x \in (0 .. r - 1) \X (0 .. c - 1) |-> 0],
         game_over |-> FALSE, won |-> FALSE, cells_flagged |-> 0,
         open_cells |-> 0, timer_starts |-> 0, relocations |-> 0,
         raised |-> FALSE, oob |-> FALSE, calls |-> 0], layout))

Install(g) ==
    /\ board' = g.board
    /\ game_over' = g.game_over
    /\ won' = g.won
    /\ cells_flagged' = g.cells_flagged
    /\ open_cells' = g.open_cells
    /\ timer_starts' = g.timer_starts
    /\ relocations' = g.relocations
    /\ raised' = g.raised
    /\ oob' = g.oob
    /\ UNCHANGED <<rows, cols, mines>>

\* a board of rows, cols >= 1 and 0 <= mines < rows * cols; the shuffle can
\* put the mines on any set of that many cells
Init ==
    /\ rows \in 1 .. MaxRows
    /\ cols \in 1 .. MaxCols
    /\ rows * cols <= MaxCells
    /\ mines \in 0 .. rows * cols - 1
    /\ \E layout \in SUBSET Cells :
          /\ Cardinality(layout) = mines
          /\ LET g == NewGame(rows, cols, mines, layout)
             IN  /\ board = g.board
                 /\ game_over = g.game_over
                 /\ won = g.won
                 /\ cells_flagged = g.cells_flagged
                 /\ open_cells = g.open_cells
                 /\ timer_starts = g.timer_starts
                 /\ relocations = g.relocations
                 /\ raised = g.raised
                 /\ oob = g.oob
    /\ cursor = [y |-> 0, x |-> 0]
    /\ pc = "api"

\* the caller keeps using the object until BadGameState escapes; the flag
\* counter can drift upwards without limit, so the drift is capped
Callable(g) ==
    /\ ~raised
    /\ g.cells_flagged - NumFlags(g.board) <= MaxLostFlags

\* columns the scan of first_open_cell reads past the end of a row
OobCells == (0 .. rows - 1) \X (cols .. rows - 1)

\* what the out-of-range reads of first_open_cell may return (see ScanMine);
\* the scan only runs in the call that takes open_cells_ from 0 to 1
Havoc == IF open_cells = 0 THEN 0 .. Cardinality(OobCells) ELSE {0}

OpenCell(row, col) ==
    \E hv \in Havoc :
        LET g == open_cell(Game, row, col, hv)
        IN  Callable(g) /\ Install(g)

ChordCell(row, col) ==
    \E hv \in Havoc :
        LET g == chord_cell(Game, row, col, hv)
        IN  Callable(g) /\ Install(g)

FlagCell(row, col) ==
    LET g == flag_cell(Game, row, col)
    IN  Callable(g) /\ Install(g)

MarkCell(row, col) ==
    LET g == mark_cell(Game, row, col)
    IN  Callable(g) /\ Install(g)

CheckWin(row, col) ==
    LET g == check_win(Game, row, col)
    IN  Callable(g) /\ Install(g)

\* any caller of the public commands; it has no cursor
Next ==
    /\ UNCHANGED <<cursor, pc>>
    /\ \E c \in Cells :
          \/ OpenCell(c[1], c[2])
          \/ ChordCell(c[1], c[2])
          \/ FlagCell(c[1], c[2])
          \/ MarkCell(c[1], c[2])
          \/ CheckWin(c[1], c[2])

Spec == Init /\ [][Next]_vars

\* a one-row board long enough (three cells) for a flood fill to stop at a
\* numbered cell
InitLine ==
    /\ rows = 1
    /\ cols \in 3 .. MaxLineCols
    /\ mines \in 0 .. rows * cols - 1
    /\ \E layout \in SUBSET Cells :
          /\ Cardinality(layout) = mines
          /\ LET g == NewGame(rows, cols, mines, layout)
             IN  /\ board = g.board
                 /\ game_over = g.game_over
                 /\ won = g.won
                 /\ cells_flagged = g.cells_flagged
                 /\ open_cells = g.open_cells
                 /\ timer_starts = g.timer_starts
                 /\ relocations = g.relocations
                 /\ raised = g.raised
                 /\ oob = g.oob
    /\ cursor = [y |-> 0, x |-> 0]
    /\ pc = "api"

\* the boards of Spec and the one-row boards
SpecFlood == (Init \/ InitLine) /\ [][Next]_vars

\* ------------------------------------------------- the input loop (play.cxx)
\* `int` is modelled IntBits wide, two's complement
IntMax == 2 ^ (IntBits - 1) - 1

IntMin == 0 - 2 ^ (IntBits - 1)

\* size_validate: the numbers create_custom_board accepts (tmp > 0)
Accepted == 1 .. IntMax

\* the mine counts create_custom_board can hand to game_menu for the
\* accepted rows r, cols c and mines m:
\*     if (mines >= *rows * *cols) mines = *rows * *cols - 1;
\* the product is an int product; when it overflows the behaviour is
\* undefined and any int can come out
create_custom_board(r, c, m) ==
    IF r * c <= IntMax
    THEN {IF m >= r * c THEN r * c - 1 ELSE m}
    ELSE IntMin .. IntMax

\* case KEY_LEFT: if (cursor.x > 0) --cursor.x;
key_left(cur, g) == IF cur.x > 0 THEN [cur EXCEPT !.x = @ - 1] ELSE cur

\* KEY_RIGHT moving while cursor.x < cols, one column too far
key_right_past_end(cur, g) ==
    IF cur.x < g.cols THEN [cur EXCEPT !.x = @ + 1] ELSE cur

\* case KEY_RIGHT: if (cursor.x < game.cols() - 1) ++cursor.x;
key_right(cur, g) ==
    IF cur.x < g.cols - 1 THEN [cur EXCEPT !.x = @ + 1] ELSE cur

\* case KEY_UP: if (cursor.y > 0) --cursor.y;
key_up(cur, g) == IF cur.y > 0 THEN [cur EXCEPT !.y = @ - 1] ELSE cur

\* case KEY_DOWN: if (cursor.y < game.rows() - 1) ++cursor.y;
key_down(cur, g) ==
    IF cur.y < g.rows - 1 THEN [cur EXCEPT !.y = @ + 1] ELSE cur

\* case ' ': chord_cell on an open cell, open_cell otherwise, then check_win
\* at the cursor; BadGameState leaves the case before check_win
key_space(cur, g, hv) ==
    LET g1 == IF is_open(g, cur.y, cur.x)
              THEN chord_cell(g, cur.y, cur.x, hv)
              ELSE open_cell(g, cur.y, cur.x, hv)
    IN  IF g1.raised THEN g1 ELSE check_win(g1, cur.y, cur.x)

\* no Game object: before new_game constructs one, after it returns
NoGame ==
    /\ board = <<>>
    /\ game_over = FALSE
    /\ won = FALSE
    /\ cells_flagged = 0
    /\ open_cells = 0
    /\ timer_starts = 0
    /\ relocations = 0
    /\ raised = FALSE
    /\ oob = FALSE
    /\ cursor = [y |-> 0, x |-> 0]

\* main_menu has entered create_custom_board
InitPlay ==
    /\ pc = "custom"
    /\ rows = 0
    /\ cols = 0
    /\ mines = 0
    /\ NoGame

\* the three numbers are typed in and game_menu is called
CreateCustomBoard ==
    /\ pc = "custom"
    /\ \E r \in Accepted, c \in Accepted, m \in Accepted :
          /\ rows' = r
          /\ cols' = c
          /\ mines' \in create_custom_board(r, c, m)
    /\ pc' = "menu"
    /\ UNCHANGED <<board, game_over, won, cells_flagged, open_cells,
                   timer_starts, relocations, raised, oob, cursor>>

\* new_game up to its loop: the Game is constructed, the cursor is at (0,0);
\* only boards within the bounds are played
StartGame ==
    /\ pc = "menu"
    /\ rows <= MaxRows /\ cols <= MaxCols /\ rows * cols <= MaxCells
    /\ mines \in 0 .. rows * cols - 1
    /\ \E layout \in SUBSET Cells :
          /\ Cardinality(layout) = mines
          /\ Install(NewGame(rows, cols, mines, layout))
    /\ cursor' = [y |-> 0, x |-> 0]
    /\ pc' = "play"

\* while (!game.is_over()): the loop waits for a key
AtKey == pc = "play" /\ ~game_over

KeyLeft ==
    /\ AtKey
    /\ cursor' = key_left(cursor, Game)
    /\ UNCHANGED <<rows, cols, mines, board, game_over, won, cells_flagged,
                   open_cells, timer_starts, relocations, raised, oob, pc>>

KeyRight ==
    /\ AtKey
    /\ cursor' = key_right(cursor, Game)
    /\ UNCHANGED <<rows, cols, mines, board, game_over, won, cells_flagged,
                   open_cells, timer_starts, relocations, raised, oob, pc>>

KeyUp ==
    /\ AtKey
    /\ cursor' = key_up(cursor, Game)
    /\ UNCHANGED <<rows, cols, mines, board, game_over, won, cells_flagged,
                   open_cells, timer_starts, relocations, raised, oob, pc>>

KeyDown ==
    /\ AtKey
    /\ cursor' = key_down(cursor, Game)
    /\ UNCHANGED <<rows, cols, mines, board, game_over, won, cells_flagged,
                   open_cells, timer_starts, relocations, raised, oob, pc>>

\* the space key; the loop is left when the game is over, the program when
\* BadGameState escapes to main
KeySpace ==
    /\ AtKey
    /\ \E hv \in Havoc :
          LET g == key_space(cursor, Game, hv)
          IN  /\ Install(g)
              /\ pc' = IF g.raised THEN "exit"
                       ELSE IF g.game_over THEN "again" ELSE "play"
    /\ UNCHANGED cursor

\* case '1': flag_cell at the cursor
Key1 ==
    /\ AtKey
    /\ LET g == flag_cell(Game, cursor.y, cursor.x)
       IN  Callable(g) /\ Install(g)
    /\ UNCHANGED <<cursor, pc>>

\* case '2': mark_cell at the cursor
Key2 ==
    /\ AtKey
    /\ LET g == mark_cell(Game, cursor.y, cursor.x)
       IN  Callable(g) /\ Install(g)
    /\ UNCHANGED <<cursor, pc>>

\* case ctrl('q'): new_game returns with the game unfinished
KeyCtrlQ ==
    /\ AtKey
    /\ pc' = "again"
    /\ UNCHANGED <<rows, cols, mines, board, game_over, won, cells_flagged,
                   open_cells, timer_starts, relocations, raised, oob,
                   cursor>>

\* game_menu: 'y' plays again with the same rows, cols and mines, 'n' leaves;
\* the Game object of the finished round is gone
PlayAgain ==
    /\ pc = "again"
    /\ pc' \in {"menu", "exit"}
    /\ board' = <<>>
    /\ game_over' = FALSE
    /\ won' = FALSE
    /\ cells_flagged' = 0
    /\ open_cells' = 0
    /\ timer_starts' = 0
    /\ relocations' = 0
    /\ raised' = FALSE
    /\ oob' = FALSE
    /\ cursor' = [y |-> 0, x |-> 0]
    /\ UNCHANGED <<rows, cols, mines>>

NextPlay ==
    \/ CreateCustomBoard
    \/ StartGame
    \/ KeyLeft
    \/ KeyRight
    \/ KeyUp
    \/ KeyDown
    \/ KeySpace
    \/ Key1
    \/ Key2
    \/ KeyCtrlQ
    \/ PlayAgain

SpecPlay == InitPlay /\ [][NextPlay]_vars

\* ----------------------------------------------------------- properties
\* the cells one step (in any of the 8 directions) away from c
Neighbours(c) ==
    {d \in Cells : d # c /\ d[1] - c[1] \in {-1, 0, 1}
                         /\ d[2] - c[2] \in {-1, 0, 1}}

Mined(b) == {c \in DOMAIN b : TestBit(b[c], 7)}

Opened(b) == {c \in DOMAIN b : TestBit(b[c], 6)}

Flagged(b) == {c \in DOMAIN b : TestBit(b[c], 5)}

Marked(b) == {c \in DOMAIN b : TestBit(b[c], 4)}

\* the open, flag and mark bits of a cell
Status(b, c) == (b[c] \div 16) % 8

\* cells that open_cell does not skip: closed, without flag, without mark
Fillable(b) == DOMAIN b \ (Opened(b) \cup Flagged(b) \cup Marked(b))

\* what the recursion of open_cell reaches from the cells R: every cell of
\* `enter` next to a reached cell whose adjacency count is 0
RECURSIVE Reach(_, _, _)
Reach(b, R, enter) ==
    LET more == {d \in enter :
                   \E e \in R : b[e] % 16 = 0 /\ d \in Neighbours(e)}
    IN  IF more \subseteq R THEN R ELSE Reach(b, R \cup more, enter)

\* C1: the first successful open_cell of a game, on any cell, leaves
\* game_over false and the cell it was called on without a mine.
C1_FirstClickSafe ==
    [][\A c \in Cells :
          (OpenCell(c[1], c[2]) /\ open_cells = 0 /\ open_cells' > 0)
              => (~game_over' /\ c \notin Mined(board'))]_vars

\* C2: open_cell never raises BadGameState and first_open_cell never reads
\* a cell outside [0, rows) x [0, cols).
C2_NoBadGameState == ~raised /\ ~oob

\* C3: won and game_over start false, and once game_over is true neither
\* flag changes again (a lost game never becomes won).
C3_TerminalFlagsImmutable ==
    /\ ~game_over /\ ~won
    /\ [][game_over => (game_over' /\ won' = won)]_vars

\* C4: once game_over is true every later command leaves every cell and
\* both counters as they were; only the check_win call that detects the win
\* may still flag cells.
C4_NoOpAfterGameOver ==
    [][(game_over /\ ~(~won /\ won'))
          => (board' = board /\ open_cells' = open_cells
              /\ cells_flagged' = cells_flagged)]_vars

\* C5: the number of cells holding a mine equals the constructor's mines
\* argument in every reachable state.
C5_MineCount == Cardinality(Mined(board)) = mines

\* C6: every cell's stored adjacency count equals the number of its
\* neighbours holding a mine, in every reachable state, and the recount
\* after a mine relocation leaves the flag and mark bits of every cell alone
\* and clears no open bit.
C6_AdjacencyConsistent ==
    /\ [](\A c \in Cells :
             board[c] % 16 = Cardinality(Neighbours(c) \cap Mined(board)))
    /\ [][relocations' # relocations
             => (/\ Flagged(board') = Flagged(board)
                 /\ Marked(board') = Marked(board)
                 /\ Opened(board) \subseteq Opened(board'))]_vars

\* C6 witness: a mine was relocated inside the grid while a flag and a mark
\* were on the board, and some cell counts a neighbouring mine.
C6_Witness ==
    /\ relocations = 1
    /\ Cardinality(Mined(board)) = mines
    /\ Flagged(board) # {}
    /\ Marked(board) # {}
    /\ \E c \in Cells : board[c] % 16 > 0

\* C7: flags() equals the number of cells whose flag bit is set.
C7_FlaggedCountExact == cells_flagged = Cardinality(Flagged(board))

\* C8: no cell is both open and marked.
C8_NoOpenMarked == Opened(board) \cap Marked(board) = {}

\* C9: no cell is both open and flagged.
C9_NoOpenFlagged == Opened(board) \cap Flagged(board) = {}

\* C9 witness: a won game after a first-click relocation: cells were opened,
\* the mine was moved and the auto-flag pass of check_win flagged a mine.
C9_Witness ==
    /\ won
    /\ relocations = 1
    /\ Opened(board) # {}
    /\ Flagged(board) \cap Mined(board) # {}

\* C10: no cell is both flagged and marked.
C10_FlagMarkExclusive == Flagged(board) \cap Marked(board) = {}

\* C10 witness: one cell carries a flag, another a mark, and a mark has
\* replaced a flag before (the flag counter is ahead of the flags).
C10_Witness ==
    /\ Flagged(board) # {}
    /\ Marked(board) # {}
    /\ cells_flagged > Cardinality(Flagged(board))

\* C11 (as stated): open_cell on a closed, unflagged, unmarked cell with
\* adjacency count 0 leaves open exactly the cells open before plus the
\* cell's connected region: everything reachable by 8-neighbour steps across
\* zero-adjacency cells, with the numbered cells bordering them.  (No call is
\* made once BadGameState has ended the program.)
C11_FloodFillWholeRegion ==
    \A c \in Fillable(board) : \A hv \in Havoc :
        ~raised /\ board[c] % 16 = 0
        => Opened(open_cell(Game, c[1], c[2], hv).board) =
             Opened(board) \cup Reach(board, {c}, Cells)

\* C11 (amended): open_cell on a closed, unflagged, unmarked, mine-free cell
\* with adjacency count 0 leaves open exactly the cells open before plus the
\* cells reachable from it by 8-neighbour steps out of zero-adjacency cells,
\* where a step never enters a cell that was open, flagged or marked before
\* the call.  (No call is made once BadGameState has ended the program.)
C11_FloodFillOpenRegion ==
    \A c \in Fillable(board) \ Mined(board) : \A hv \in Havoc :
        ~raised /\ board[c] % 16 = 0
        => Opened(open_cell(Game, c[1], c[2], hv).board) =
             Opened(board) \cup Reach(board, {c}, Fillable(board))

\* C11 witness: a running game in which a fill went from a zero-adjacency
\* cell to a numbered cell and stopped there, with the mine beyond it flagged
\* and still closed.
C11_Witness ==
    /\ ~game_over
    /\ \E c \in Opened(board) :
          /\ board[c] % 16 = 0
          /\ \E d \in Neighbours(c) \cap Opened(board) :
                /\ board[d] % 16 > 0
                /\ Neighbours(d) \cap Flagged(board) \cap Mined(board) # {}

\* C12: when check_win takes a game in progress to won, every mined cell is
\* flagged and unmarked afterwards, and the flag counter has grown by exactly
\* the number of mined cells that carried no flag before.
C12_AutoFlagOnWin ==
    \A c \in Cells :
        LET g == check_win(Game, c[1], c[2])
        IN  (~raised /\ ~game_over /\ g.won)
            => /\ Mined(g.board) \subseteq Flagged(g.board) \ Marked(g.board)
               /\ g.cells_flagged =
                    cells_flagged + Cardinality(Mined(board) \ Flagged(board))

\* C12 witness: a won game whose mines are all closed and flagged, on a board
\* with a mine, while another cell once lost its flag to a mark.
C12_Witness ==
    /\ won
    /\ Mined(board) # {}
    /\ Mined(board) \cap Opened(board) = {}
    /\ Mined(board) \subseteq Flagged(board) \ Marked(board)
    /\ cells_flagged > Cardinality(Flagged(board))

\* C13: chord_cell on a cell that is not open, or on an open cell whose number
\* of flagged neighbours differs from its adjacency count, changes nothing:
\* no cell, no counter, neither game_over nor won.
C13_ChordNoOp ==
    \A c \in Cells : \A hv \in Havoc :
        (/\ ~raised
         /\ \/ c \notin Opened(board)
            \/ Cardinality(Neighbours(c) \cap Flagged(board)) # board[c] % 16)
        => [chord_cell(Game, c[1], c[2], hv) EXCEPT !.calls = 0] = Game

\* C13 witness: an open numbered cell whose flagged neighbours are not as many
\* as its adjacency count, next to a closed cell a chord would open.
C13_Witness ==
    /\ ~game_over
    /\ \E c \in Opened(board) :
          /\ board[c] % 16 > 0
          /\ Cardinality(Neighbours(c) \cap Flagged(board)) # board[c] % 16
          /\ Neighbours(c) \cap Flagged(board) # {}
          /\ Neighbours(c) \cap Fillable(board) # {}

\* C14: open_cell on a cell that is already open, flagged or marked changes
\* nothing (no cell, no counter, no clock start, no relocation, no loss), and
\* a cell that is open, flagged or marked keeps its open, flag and mark bits
\* through every open_cell and chord_cell call, also when the flood fill or
\* the chord reaches it as a neighbour.
C14_OpenNoOp ==
    \A c \in Cells : \A hv \in Havoc :
        ~raised =>
        LET skipped == DOMAIN board \ Fillable(board)
            o == open_cell(Game, c[1], c[2], hv)
            h == chord_cell(Game, c[1], c[2], hv)
        IN  /\ c \in skipped => [o EXCEPT !.calls = 0] = Game
            /\ \A d \in skipped :
                  /\ Status(o.board, d) = Status(board, d)
                  /\ Status(h.board, d) = Status(board, d)

\* C14 witness: a flood fill has opened a zero-adjacency cell and its open
\* neighbour while a flagged and a marked neighbour of it stayed closed.
C14_Witness ==
    \E c \in Opened(board) :
        /\ board[c] % 16 = 0
        /\ Neighbours(c) \cap Opened(board) # {}
        /\ (Neighbours(c) \cap Flagged(board)) \ Opened(board) # {}
        /\ (Neighbours(c) \cap Marked(board)) \ Opened(board) # {}

\* C15: the opened-cell counter equals the number of open cells in every
\* reachable state, it never decreases, and no cell goes from open back to
\* closed.
C15_OpenedCountExactMonotone ==
    /\ [](open_cells = Cardinality(Opened(board)))
    /\ [][/\ open_cells' >= open_cells
          /\ Opened(board) \subseteq Opened(board')]_vars

\* C15 witness: a lost game with several open cells, a mined one among them,
\* after a flood fill or chord opened more than one cell.
C15_Witness ==
    /\ game_over
    /\ ~won
    /\ open_cells >= 3
    /\ Opened(board) \cap Mined(board) # {}

\* C16: every open_cell and chord_cell call terminates: a call opens at most
\* rows * cols cells, and it makes at most 8 further open_cell calls for each
\* cell it opens (one direct call for open_cell, at most 8 for chord_cell).
C16_CallsBounded ==
    \A c \in Cells : \A hv \in Havoc :
        ~raised =>
        LET o == open_cell(Game, c[1], c[2], hv)
            h == chord_cell(Game, c[1], c[2], hv)
        IN  /\ o.open_cells - open_cells <= rows * cols
            /\ o.calls <= 1 + 8 * (o.open_cells - open_cells)
            /\ h.open_cells - open_cells <= rows * cols
            /\ h.calls <= 8 + 8 * (h.open_cells - open_cells)

\* C16 witness: one open_cell call on a board without mines has opened every
\* cell of a board of at least four cells.
C16_Witness ==
    /\ mines = 0
    /\ rows * cols >= 4
    /\ open_cells = rows * cols
    /\ timer_starts = 1

\* C17: determinism: from equal states the same command yields equal states,
\* so two games built with the same layout (same rows, cols, mines and seed)
\* that receive the same commands stay equal.  Stated for one step: the
\* result of open_cell and of chord_cell is fixed by the state and the cell.
C17_Deterministic ==
    \A c \in Cells : \A h1, h2 \in Havoc :
        ~raised =>
        /\ open_cell(Game, c[1], c[2], h1) = open_cell(Game, c[1], c[2], h2)
        /\ chord_cell(Game, c[1], c[2], h1) = chord_cell(Game, c[1], c[2], h2)

\* C18: when the first open_cell that opens a cell hits a mine, the mine goes
\* to the first cell without a mine in row-major order over the whole
\* rows x cols grid, the clicked cell loses its mine, and no other cell's
\* mine bit changes.
C18_RelocationTarget ==
    \A c \in Fillable(board) \cap Mined(board) : \A hv \in Havoc :
        (~raised /\ open_cells = 0) =>
        LET free == Cells \ Mined(board)
            target == CHOOSE t \in free :
                        \A u \in free :
                          t[1] * cols + t[2] <= u[1] * cols + u[2]
        IN  Mined(open_cell(Game, c[1], c[2], hv).board) =
              (Mined(board) \ {c}) \cup {target}

\* C19: within one chord_cell call, once opening a neighbour hits a mine and
\* sets game_over, the call changes nothing more: the neighbours visited
\* after the mine are not opened and the opened-cell counter does not grow.
\* The call must leave the board and the counter as the visits up to and
\* including the first mined neighbour left them.
C19_ChordStopsAtLoss ==
    \A c \in Opened(board) : \A hv \in Havoc :
        (~raised /\ ~game_over) =>
        LET s == adjacent_cells(Game, c[1], c[2])
            hits == {k \in 1 .. Len(s) :
                       s[k] \in Fillable(board) \cap Mined(board)}
            h == chord_cell(Game, c[1], c[2], hv)
        IN  (h.game_over /\ hits # {}) =>
            LET first == CHOOSE k \in hits : \A m \in hits : k <= m
                p == OpenEach(Game, SubSeq(s, 1, first), hv)
            IN  /\ p.game_over
                /\ h.board = p.board
                /\ h.open_cells = p.open_cells

\* C20: the clock is started exactly once per game, by the first open_cell
\* call that opens a cell: it has not been started while no cell is open, it
\* has been started once when a cell is open, and a step that starts it goes
\* from no open cell to an open cell; flag_cell, mark_cell, check_win,
\* chord_cell on a closed cell and an open_cell that opens nothing leave it
\* alone, and it is never started again.
C20_ClockStartedOnce ==
    /\ [](timer_starts = IF Opened(board) = {} THEN 0 ELSE 1)
    /\ [][timer_starts' # timer_starts
          => /\ Opened(board) = {}
             /\ Opened(board') # {}
             /\ timer_starts' = timer_starts + 1]_vars

\* C20 witness: a game in progress with two cells opened by two successful
\* open_cell calls, after flags and marks were set, and the clock started
\* once.
C20_Witness ==
    /\ ~game_over
    /\ timer_starts = 1
    /\ open_cells = 2
    /\ \A c \in Opened(board) : board[c] % 16 > 0
    /\ Flagged(board) # {}
    /\ cells_flagged > Cardinality(Flagged(board))

\* C21: in the input loop of new_game the cursor starts at (0,0) and stays
\* inside the grid after any sequence of arrow, space, '1' and '2' keys:
\* 0 <= cursor.y < rows and 0 <= cursor.x < cols, so every command the loop
\* issues has in-range coordinates.
C21_CursorInRange ==
    pc \in {"play", "again"}
    => /\ 0 <= cursor.y /\ cursor.y < rows
       /\ 0 <= cursor.x /\ cursor.x < cols

\* C21 witness: the loop waits for a key with the cursor in the far corner
\* of a 2x2 board, after space, '1' and '2' were pressed on several cells.
C21_Witness ==
    /\ pc = "play"
    /\ rows = 2
    /\ cols = 2
    /\ cursor = [y |-> rows - 1, x |-> cols - 1]
    /\ open_cells > 0
    /\ Flagged(board) # {}
    /\ Marked(board) # {}

\* C22: for all accepted inputs rows > 0, cols > 0, mines > 0 of
\* create_custom_board, the mine count handed to game_menu is the entered
\* value when that is below rows * cols and rows * cols - 1 otherwise, so
\* 0 <= mines <= rows * cols - 1 and a safe cell exists.
C22_CustomClamp ==
    pc = "menu" =>
    /\ 0 <= mines /\ mines <= rows * cols - 1
    /\ \E m \in Accepted :
          mines = IF m < rows * cols THEN m ELSE rows * cols - 1

\* C23: under the input loop (every open_cell or chord_cell followed by
\* check_win at the cursor), whenever won is true every cell without a mine
\* is open and no cell with a mine is open.
C23_WonMeansCleared ==
    won => Opened(board) = Cells \ Mined(board)

\* C24: while the game is in progress (game_over false) no cell is both open
\* and mined, in every state between commands, the state left behind when
\* open_cell raises BadGameState included.
C24_NoOpenMineInProgress ==
    ~game_over => Opened(board) \cap Mined(board) = {}

\* C25: under the input loop a win is never missed: whenever the loop waits
\* for the next key with game_over false, a mine-free cell is still closed,
\* opened count + mines < rows * cols.
C25_WinNotMissed ==
    AtKey => open_cells + mines < rows * cols
====
